---- MODULE Spec2Model ----
(***************************************************************************)
(* Model of custom_components/srgssr_weather/weather.py: the OAuth2        *)
(* client-credentials token cache (get_api_key, _renew_api_key) and the    *)
(* SRGSSTWeather entity with its update loop task.                         *)
(*                                                                         *)
(* Conventions                                                             *)
(*   - Python's Optional[x] is a sequence: <<>> is None / key absent,      *)
(*     <<x>> is the value x.                                               *)
(*   - A JSON value is [t |-> tag, v |-> integer]: "num" a JSON number,    *)
(*     "numstr" a string holding an integer, "text" a string that is not   *)
(*     a number, "missing" an absent key.                                  *)
(*   - now is time.time() in seconds; issued_at of the provider is in      *)
(*     milliseconds.                                                       *)
(***************************************************************************)
EXTENDS Integers, Sequences, FiniteSets, TLC

\* ------------------------------------------------------------------ bounds
MaxTime == 2
MaxExpiresIn == 2
MaxTokens == 2
MaxHours == 2
MaxDays == 2
MaxTasks == 2
MaxCycles == 2

\* ------------------------------------------------------------ JSON values
Missing == [t |-> "missing", v |-> 0]
Text == [t |-> "text", v |-> 0]
Num(n) == [t |-> "num", v |-> n]
NumStr(n) == [t |-> "numstr", v |-> n]

\* int(x) succeeds on a number and on a string holding an integer; it raises
\* ValueError on other strings (and KeyError is raised before it on a missing key).
IntOk(x) == x.t \in {"num", "numstr"}
IntOf(x) == x.v

\* -------------------------------------------------------- credential state
VARIABLES
    now,               \* time.time(), in seconds
    api_data,          \* self._api_data: ATTR_API_KEY and ATTR_EXPIRES_AT
    snapshot,          \* what the host reads: _state, _temperature, ...
    update_loop_task,  \* self.__update_loop_task: 0 is None, else a task id
    tasks,             \* the update-loop tasks created so far
    created,           \* how many tasks asyncio.create_task has made
    cycles,            \* how many cycles have begun (bounded by MaxCycles)
    call,              \* one get_api_key call observed on its own (SpecKey)
    config,            \* self._config: CONF_LATITUDE and CONF_LONGITUDE
    probe              \* one call of a function observed on its own

vars ==
    <<now, api_data, snapshot, update_loop_task, tasks, created, cycles, call,
      config, probe>>

Tokens == 1..MaxTokens
NoCredentials == [api_key |-> <<>>, expires_at |-> <<>>]

EXPECTED_KEYS == {"issued_at", "expires_in", "access_token"}

\* The token endpoint's answers: a transport failure or a body that is not a
\* JSON object (ok = FALSE), or a JSON object with any of the three keys
\* present or absent.  The provider stamps issued_at in milliseconds.
TokenResponses(t) ==
    {[ok |-> FALSE, access_token |-> Missing, expires_in |-> Missing, issued_at |-> Missing]}
    \cup
    [ok : {TRUE},
     access_token : {Missing} \cup {NumStr(k) : k \in Tokens},
     expires_in : {Missing, Text} \cup {Num(n) : n \in 0..MaxExpiresIn}
                  \cup {NumStr(n) : n \in 1..MaxExpiresIn},
     issued_at : {Missing, Text, Num(t * 1000), NumStr(t * 1000 + 999)}]

\* _check_client_credentials_response: issued_at defaults to int(time.time());
\* the keys still missing raise ValueError.
CheckDefaulted(d, t) ==
    IF d.issued_at.t = "missing" THEN [d EXCEPT !.issued_at = Num(t)] ELSE d

CheckMissing(d) == {k \in EXPECTED_KEYS : d[k].t = "missing"}

\* request_access_token: the POST, resp.json(), then the check.
\* [ok, data]: ok = FALSE when an exception is raised.
request_access_token(resp, t) ==
    IF ~resp.ok THEN [ok |-> FALSE, data |-> resp]
    ELSE LET d == CheckDefaulted(resp, t)
         IN [ok |-> CheckMissing(d) = {}, data |-> d]

\* The right-hand side of the assignment to data[ATTR_EXPIRES_AT].
ExpiresAt(token_data) ==
    IntOf(token_data.expires_in) + (IntOf(token_data.issued_at) \div 1000)

\* Mutant of _renew_api_key: the key is stored before the expiry is computed,
\* so a failing int() leaves the new key beside the old expiry.
RenewKeyFirst(data, resp, t) ==
    LET r == request_access_token(resp, t)
        token_data == r.data
    IN IF ~r.ok THEN [ok |-> FALSE, data |-> data]
       ELSE IF ~IntOk(token_data.expires_in) \/ ~IntOk(token_data.issued_at)
            THEN [ok |-> FALSE,
                  data |-> [data EXCEPT !.api_key = <<token_data.access_token.v>>]]
       ELSE [ok |-> TRUE,
             data |-> [api_key |-> <<token_data.access_token.v>>,
                       expires_at |-> <<ExpiresAt(token_data)>>]]

\* _renew_api_key on the credential state `data` with the endpoint answering
\* `resp` at time t: [ok, data].  The right-hand side is evaluated before the
\* first store, so a failing int() leaves data as it was.
_renew_api_key(data, resp, t) ==
    LET r == request_access_token(resp, t)
        token_data == r.data
    IN IF ~r.ok THEN [ok |-> FALSE, data |-> data]
       ELSE IF ~IntOk(token_data.expires_in) \/ ~IntOk(token_data.issued_at)
            THEN [ok |-> FALSE, data |-> data]
       ELSE [ok |-> TRUE,
             data |-> [api_key |-> <<token_data.access_token.v>>,
                       expires_at |-> <<ExpiresAt(token_data)>>]]

\* Mutant of Renew: the expiry is not consulted.
RenewAlways(data, t) == TRUE

\* get_api_key, first half: whether a renewal is needed.
Renew(data, t) ==
    IF data.expires_at = <<>> THEN TRUE ELSE t >= data.expires_at[1]

\* get_api_key, last line: data[ATTR_API_KEY]; <<>> stands for the KeyError.
ReturnKey(data) == data.api_key


\* ------------------------------------------------------- condition mapping
DaySymbols ==
    <<"sunny", "fog", "partlycloudy", "rainy", "lightning-rainy", "snowy",
      "snowy-rainy", "snowy-rainy", "snowy-rainy", "sunny", "sunny", "sunny",
      "sunny", "sunny", "sunny", "sunny", "fog", "cloudy", "cloudy", "rainy",
      "snowy", "snowy-rainy", "pouring", "snowy", "rainy", "lightning", "snowy",
      "cloudy", "snowy-rainy", "snowy-rainy">>

NightSymbols ==
    <<"clear-night", "fog", "cloudy", "rainy", "lightning-rainy", "snowy",
      "snowy", "snowy-rainy", "lightning-rainy", "partlycloudy", "rainy",
      "lightning", "snowy", "snowy", "snowy-rainy", "partlycloudy", "fog",
      "cloudy", "cloudy", "rainy", "snowy", "snowy-rainy", "pouring", "snowy",
      "rainy", "lightning", "rainy", "lightning-rainy", "snowy-rainy",
      "snowy-rainy">>

\* SYMBOL_STATE_MAP: keys 1..30 and -1..-30.
SYMBOL_STATE_MAP ==
    [k \in (1..Len(DaySymbols)) \cup {-i : i \in 1..Len(NightSymbols)} |->
        IF k > 0 THEN DaySymbols[k] ELSE NightSymbols[-k]]

STATE_UNAVAILABLE == "unavailable"

\* Mutant of get_condition_from_symbol: the lookup's None is returned as it is.
GetConditionNoFallback(symbol_id) ==
    IF symbol_id \in DOMAIN SYMBOL_STATE_MAP
    THEN SYMBOL_STATE_MAP[symbol_id]
    ELSE "None"

\* SYMBOL_STATE_MAP.get(symbol_id), STATE_UNAVAILABLE when it gives None.
get_condition_from_symbol(symbol_id) ==
    IF symbol_id \in DOMAIN SYMBOL_STATE_MAP
    THEN SYMBOL_STATE_MAP[symbol_id]
    ELSE STATE_UNAVAILABLE

\* ------------------------------------------------------ bearing conversion
CARDINALS ==
    <<"N", "NNE", "NE", "ENE", "E", "ESE", "SE", "SSE",
      "S", "SSW", "SW", "WSW", "W", "WNW", "NW", "NNW">>

DEG_HALF_CIRCLE == 180
DEG_FULL_CIRCLE == 2 * DEG_HALF_CIRCLE

\* Python's round(n / d) for n >= 0, d > 0: to the nearest integer, a tie
\* going to the even neighbour.
PyRound(n, d) ==
    LET q == n \div d
        r == n % d
    IN IF 2 * r < d THEN q
       ELSE IF 2 * r > d THEN q + 1
       ELSE IF q % 2 = 0 THEN q ELSE q + 1

\* deg_to_cardinal on a bearing given in quarter degrees (deg = q4 / 4), so
\* that the sector width 360 / 16 = 22.5 degrees is the integer 90 and the
\* halfway points (odd multiples of 11.25 degrees) are integers too.
deg_to_cardinal(q4) ==
    LET width == (4 * DEG_FULL_CIRCLE) \div Len(CARDINALS)
        i == PyRound(q4 % (4 * DEG_FULL_CIRCLE), width)
    IN CARDINALS[(i % Len(CARDINALS)) + 1]

\* --------------------------------------------------------- forecast records
\* float(x): as int(x) on the values of this model.
FloatOk(x) == x.t \in {"num", "numstr"}
FloatOf(x) == x.v

\* local_date_time: "iso" an ISO-8601 string with a UTC offset, "isonaive"
\* one without; v is the instant in the clock's unit.
Iso(k) == [t |-> "iso", v |-> k]
IsoNaive(k) == [t |-> "isonaive", v |-> k]
DateOk(x) == x.t \in {"iso", "isonaive"}

\* parse_forecast: [ok, entry]; ok = FALSE when any of its lookups or
\* conversions raises, in which case no entry is returned.
parse_forecast(day) ==
    IF /\ DateOk(day.local_date_time)
       /\ FloatOk(day.TX_C)
       /\ FloatOk(day.TN_C)
       /\ IntOk(day.SYMBOL_CODE)
       /\ FloatOk(day.RRR_MM)
       /\ IntOk(day.DD_DEG)
       /\ FloatOk(day.FF_KMH)
    THEN [ok |-> TRUE,
          entry |-> <<[datetime |-> day.local_date_time,
                       temperature |-> FloatOf(day.TX_C),
                       condition |-> get_condition_from_symbol(IntOf(day.SYMBOL_CODE)),
                       symbol_id |-> IntOf(day.SYMBOL_CODE),
                       templow |-> FloatOf(day.TN_C),
                       precipitation |-> FloatOf(day.RRR_MM),
                       wind_bearing |-> FloatOf(day.RRR_MM),
                       wind_speed |-> FloatOf(day.FF_KMH)]>>]
    ELSE [ok |-> FALSE, entry |-> <<>>]

\* The try/except loops of __update: the entries of the records that parse,
\* in order; a record that raises is skipped.
RECURSIVE ParseAll(_)
ParseAll(raw) ==
    IF raw = <<>> THEN <<>>
    ELSE parse_forecast(Head(raw)).entry \o ParseAll(Tail(raw))


\* ------------------------------------------------------------ the snapshot
\* SRGSSTWeather.__init__
EmptySnapshot ==
    [state |-> <<>>, temperature |-> <<>>, wind_speed |-> <<>>,
     wind_bearing |-> <<>>, state_attrs |-> <<>>,
     forecast |-> <<>>, hourly_forecast |-> <<>>]

\* Mutant of SelectNow: a record whose local_date_time equals `t` is taken.
RECURSIVE SelectAtOrAfter(_, _, _)
SelectAtOrAfter(hourlyforecast, i, t) ==
    IF i > Len(hourlyforecast)
    THEN IF hourlyforecast = <<>>
         THEN [ok |-> FALSE, rec |-> <<>>]
         ELSE [ok |-> TRUE, rec |-> <<hourlyforecast[Len(hourlyforecast)]>>]
    ELSE LET f == hourlyforecast[i]
         IN IF f.local_date_time.t # "iso" THEN [ok |-> FALSE, rec |-> <<>>]
            ELSE IF f.local_date_time.v >= t THEN [ok |-> TRUE, rec |-> <<f>>]
            ELSE SelectAtOrAfter(hourlyforecast, i + 1, t)

\* The generator of __update and next(futureforecast, None): the first record
\* whose local_date_time is after `t`, else hourlyforecast[-1].  [ok, rec];
\* ok = FALSE when it raises: a local_date_time that is missing or no ISO
\* string, one without an offset compared with the aware `now`, an empty list.
RECURSIVE SelectNow(_, _, _)
SelectNow(hourlyforecast, i, t) ==
    IF i > Len(hourlyforecast)
    THEN IF hourlyforecast = <<>>
         THEN [ok |-> FALSE, rec |-> <<>>]
         ELSE [ok |-> TRUE, rec |-> <<hourlyforecast[Len(hourlyforecast)]>>]
    ELSE LET f == hourlyforecast[i]
         IN IF f.local_date_time.t # "iso" THEN [ok |-> FALSE, rec |-> <<>>]
            ELSE IF f.local_date_time.v > t THEN [ok |-> TRUE, rec |-> <<f>>]
            ELSE SelectNow(hourlyforecast, i + 1, t)

\* Lines 235-248 of __update, statement by statement: each store is made as
\* soon as its right-hand side has been computed, and the first conversion
\* that raises ends the function with the earlier stores in place.
UpdateCurrent(snap, f) ==
    LET s1 == [snap EXCEPT !.state = <<get_condition_from_symbol(IntOf(f.SYMBOL_CODE))>>]
        s2 == [s1 EXCEPT !.temperature = <<FloatOf(f.TTT_C)>>]
        s3 == [s2 EXCEPT !.wind_speed = <<FloatOf(f.FF_KMH)>>]
        s4 == [s3 EXCEPT !.wind_speed = <<FloatOf(f.FX_KMH)>>]
        s5 == [s4 EXCEPT !.wind_bearing = <<deg_to_cardinal(4 * FloatOf(f.DD_DEG))>>]
        s6 == [s5 EXCEPT !.state_attrs =
                  <<[wind_direction |-> FloatOf(f.DD_DEG),
                     symbol_id |-> IntOf(f.SYMBOL_CODE),
                     precipitation |-> FloatOf(f.RRR_MM),
                     rain_probability |-> FloatOf(f.PROBPCP_PERCENT)]>>]
    IN IF ~IntOk(f.SYMBOL_CODE) THEN [ok |-> FALSE, snap |-> snap]
       ELSE IF ~FloatOk(f.TTT_C) THEN [ok |-> FALSE, snap |-> s1]
       ELSE IF ~FloatOk(f.FF_KMH) THEN [ok |-> FALSE, snap |-> s2]
       ELSE IF ~FloatOk(f.FX_KMH) THEN [ok |-> FALSE, snap |-> s3]
       ELSE IF ~FloatOk(f.DD_DEG) THEN [ok |-> FALSE, snap |-> s4]
       ELSE IF ~FloatOk(f.RRR_MM) \/ ~FloatOk(f.PROBPCP_PERCENT)
            THEN [ok |-> FALSE, snap |-> s5]
       ELSE [ok |-> TRUE, snap |-> s6]

\* Lines 250-269 of __update.  `forecast` is one list object: it is stored in
\* self._forecast and the hourly loop then appends to it, so the entity's
\* daily list ends with the hourly entries too; hourly_forecast stays empty.
UpdateForecasts(snap, days, hours) ==
    [snap EXCEPT !.forecast = ParseAll(days) \o ParseAll(hours),
                 !.hourly_forecast = <<>>]

\* __update after __get has returned `data` (lines 219-269): [ok, snap].
\* data.hours / data.days are <<>> when the key is absent, else <<list>>.
UpdateBody(snap, data, t) ==
    IF data.hours = <<>> THEN [ok |-> FALSE, snap |-> snap]
    ELSE LET sel == SelectNow(data.hours[1], 1, t)
         IN IF ~sel.ok THEN [ok |-> FALSE, snap |-> snap]
            ELSE LET cur == UpdateCurrent(snap, sel.rec[1])
                 IN IF ~cur.ok THEN cur
                    ELSE IF data.days = <<>> THEN [ok |-> FALSE, snap |-> cur.snap]
                    ELSE [ok |-> TRUE,
                          snap |-> UpdateForecasts(cur.snap, data.days[1], data.hours[1])]

\* ------------------------------------------------- forecast endpoint answers
Rec(k) ==
    [local_date_time |-> Iso(k), SYMBOL_CODE |-> Num(k), TTT_C |-> Num(10 + k),
     FF_KMH |-> Num(5), FX_KMH |-> Num(9), DD_DEG |-> Num(90 * k),
     RRR_MM |-> Num(k), PROBPCP_PERCENT |-> Num(50),
     TX_C |-> Num(20 + k), TN_C |-> Num(k)]

HourRecords ==
    {Rec(1), Rec(2),
     [Rec(1) EXCEPT !.local_date_time = Text],
     [Rec(1) EXCEPT !.TTT_C = Text],
     [Rec(1) EXCEPT !.RRR_MM = Text],
     [Rec(1) EXCEPT !.SYMBOL_CODE = Missing],
     [Rec(2) EXCEPT !.SYMBOL_CODE = Num(0)],
     [Rec(2) EXCEPT !.local_date_time = IsoNaive(2)]}

DayRecords ==
    {Rec(1), Rec(2), [Rec(2) EXCEPT !.TX_C = Text]}

SeqsUpTo(S, n) == UNION {[1..k -> S] : k \in 0..n}

\* What session.get and resp.json() can give: a transport failure or a body
\* that is not JSON ("neterr"), a non-success status with a JSON body
\* ("http500"), status 200 with an x-ratelimit-reset-time header int() rejects
\* ("badheader"), or status 200 with a JSON object ("ok") whose "60minutes"
\* and "day" lists are drawn from hourLists and dayLists, or absent.
ForecastResponsesOf(hourLists, dayLists) ==
    [status : {"neterr", "badheader"}, hours : {<<>>}, days : {<<>>}]
    \cup
    [status : {"ok", "http500"},
     hours : {<<>>} \cup {<<h>> : h \in hourLists},
     days : {<<>>} \cup {<<d>> : d \in dayLists}]

\* Every answer within the bounds.
ForecastResponses ==
    ForecastResponsesOf(SeqsUpTo(HourRecords, MaxHours), SeqsUpTo(DayRecords, MaxDays))

\* The answers the lifecycle specifications draw from: every failure status, a
\* well-formed forecast and one whose selected record has a non-numeric TTT_C.
BasicResponses ==
    ForecastResponsesOf({<<Rec(1)>>, <<[Rec(1) EXCEPT !.TTT_C = Text]>>}, {<<Rec(2)>>})

\* Mutant of Get: raise_for_status() is not called.
GetAnyStatus(resp) == [ok |-> resp.status \in {"ok", "http500"}, data |-> resp]

\* SRGSSTWeather.__get after the token: [ok, data]; ok = FALSE when it raises
\* (the int() of the header in the debug call, resp.json(), raise_for_status()).
Get(resp) == [ok |-> resp.status = "ok", data |-> resp]


\* ---------------------------------------------------------- update-loop task
\* A task of __update_loop.  pc is where it is suspended:
\*   "none"        no such task yet
\*   "new"         created by asyncio.create_task, not yet run
\*   "token_wait"  in request_access_token, awaiting the POST
\*   "fetch_wait"  in __get, awaiting the GET
\*   "sleep"       in asyncio.sleep(delay)
\*   "stopped"     ended by CancelledError
\*   "crashed"     ended by another exception leaving __update_loop
\* cancel: Task.cancel() was called and CancelledError is still to be thrown
\* into the coroutine; api_key: the local of __get, the bearer token of the GET
\* in flight; delay: the argument of the asyncio.sleep in progress.
\* Of the cycle that ended last: status is what the forecast endpoint answered
\* ("" when the cycle made no GET) and outcome the branch __update_loop took:
\* "error" (except Exception), "published" (async_update_ha_state returned),
\* "publish_raised" (it raised), "cancelled_in_cycle" (except CancelledError),
\* "cancelled" (CancelledError outside the try).
NoTask ==
    [pc |-> "none", cancel |-> FALSE, api_key |-> <<>>, delay |-> 0,
     status |-> "", outcome |-> ""]
NewTask == [NoTask EXCEPT !.pc = "new"]
TaskIds == 1..MaxTasks
Suspended == {"new", "token_wait", "fetch_wait", "sleep"}

\* Mutant of Delays: the upper end of the range is included.
DelaysUpTo65 == {m * 60 : m \in 55..65}

\* random.randrange(55, 65) * 60
Delays == {m * 60 : m \in 55..64}

\* Mutant of CycleFailed: the state is published after a failed cycle too.
CycleFailedPublishes(t, status) ==
    \E d \in Delays :
        tasks' = [tasks EXCEPT ![t] = [pc |-> "sleep", cancel |-> FALSE,
                                       api_key |-> <<>>, delay |-> d,
                                       status |-> status, outcome |-> "published"]]

\* `except Exception` of __update_loop, then the delay and the sleep.
CycleFailed(t, status) ==
    \E d \in Delays :
        tasks' = [tasks EXCEPT ![t] = [pc |-> "sleep", cancel |-> FALSE,
                                       api_key |-> <<>>, delay |-> d,
                                       status |-> status, outcome |-> "error"]]

\* The `else` branch of __update_loop: async_update_ha_state(), which is not
\* guarded by the try, then the delay and the sleep.  The host's call either
\* returns or raises.
CycleSucceeded(t) ==
    \/ \E d \in Delays :
        tasks' = [tasks EXCEPT ![t] = [pc |-> "sleep", cancel |-> FALSE,
                                       api_key |-> <<>>, delay |-> d,
                                       status |-> "ok", outcome |-> "published"]]
    \/ tasks' = [tasks EXCEPT ![t] = [pc |-> "crashed", cancel |-> FALSE,
                                      api_key |-> <<>>, delay |-> 0,
                                      status |-> "ok", outcome |-> "publish_raised"]]

\* One iteration of `while True` up to its first await: __update, __get and
\* get_api_key until the POST (a renewal), the GET (a cached key), or the
\* KeyError of data[ATTR_API_KEY].
BeginCycle(t) ==
    /\ ~tasks[t].cancel
    /\ cycles < MaxCycles
    /\ cycles' = cycles + 1
    /\ IF Renew(api_data, now)
       THEN tasks' = [tasks EXCEPT ![t] = [NoTask EXCEPT !.pc = "token_wait"]]
       ELSE IF ReturnKey(api_data) = <<>>
            THEN CycleFailed(t, "")
            ELSE tasks' = [tasks EXCEPT ![t] = [NoTask EXCEPT !.pc = "fetch_wait",
                                                       !.api_key = ReturnKey(api_data)]]
    /\ UNCHANGED <<now, api_data, snapshot, update_loop_task, created, call, config, probe>>

\* The task runs for the first time.
TaskStart(t) ==
    /\ tasks[t].pc = "new"
    /\ BeginCycle(t)

\* asyncio.sleep returns and the loop goes round.
SleepDone(t) ==
    /\ tasks[t].pc = "sleep"
    /\ BeginCycle(t)

\* The token endpoint answers: the rest of _renew_api_key and get_api_key,
\* then __get up to the GET.
TokenResponse(t) ==
    /\ tasks[t].pc = "token_wait"
    /\ ~tasks[t].cancel
    /\ \E resp \in TokenResponses(now) :
         LET r == _renew_api_key(api_data, resp, now)
         IN /\ api_data' = r.data
            /\ IF r.ok /\ ReturnKey(r.data) # <<>>
               THEN tasks' = [tasks EXCEPT ![t].pc = "fetch_wait",
                                           ![t].api_key = ReturnKey(r.data)]
               ELSE CycleFailed(t, "")
    /\ UNCHANGED <<now, snapshot, update_loop_task, created, cycles, call, config, probe>>

\* The forecast endpoint answers: the rest of __get and of __update, and the
\* loop up to asyncio.sleep.
FetchResponse(t, answers) ==
    /\ tasks[t].pc = "fetch_wait"
    /\ ~tasks[t].cancel
    /\ \E resp \in answers :
         LET g == Get(resp)
         IN IF ~g.ok
            THEN snapshot' = snapshot /\ CycleFailed(t, resp.status)
            ELSE LET u == UpdateBody(snapshot, g.data, now)
                 IN /\ snapshot' = u.snap
                    /\ IF u.ok THEN CycleSucceeded(t) ELSE CycleFailed(t, resp.status)
    /\ UNCHANGED <<now, api_data, update_loop_task, created, cycles, call, config, probe>>

\* The task ends with CancelledError, thrown into it outside the try.
TaskCancelled(t) ==
    tasks' = [tasks EXCEPT ![t] = [NoTask EXCEPT !.pc = "stopped",
                                                   !.outcome = "cancelled"]]

\* Mutant of ExceptCancelled: the clause is missing and `except Exception`
\* takes the error (as it does where CancelledError is an Exception).
ExceptSwallowed(t) == CycleFailed(t, "")

\* `except asyncio.CancelledError: raise` of __update_loop: the error thrown
\* into a cycle leaves the loop.
ExceptCancelled(t) ==
    tasks' = [tasks EXCEPT ![t] = [NoTask EXCEPT !.pc = "stopped",
                                                   !.outcome = "cancelled_in_cycle"]]

\* The event loop throws CancelledError into the task where it is suspended:
\* inside the try (a cycle), or outside it (the sleep, or before the first run).
Cancelled(t) ==
    /\ tasks[t].cancel
    /\ tasks[t].pc \in Suspended
    /\ IF tasks[t].pc \in {"token_wait", "fetch_wait"}
       THEN ExceptCancelled(t)
       ELSE TaskCancelled(t)
    /\ UNCHANGED <<now, api_data, snapshot, update_loop_task, created, cycles, call, config, probe>>

\* async_added_to_hass: a new task, whatever __update_loop_task held.
async_added_to_hass ==
    /\ created < MaxTasks
    /\ created' = created + 1
    /\ tasks' = [tasks EXCEPT ![created + 1] = NewTask]
    /\ update_loop_task' = created + 1
    /\ UNCHANGED <<now, api_data, snapshot, cycles, call, config, probe>>

\* The host adds the entity: Home Assistant calls async_added_to_hass on an
\* entity that is not attached.
HostAdd ==
    /\ update_loop_task = 0
    /\ async_added_to_hass

\* async_will_remove_from_hass.  Task.cancel() on a task that has ended does
\* nothing.
async_will_remove_from_hass ==
    /\ IF update_loop_task # 0
       THEN /\ tasks' = [tasks EXCEPT ![update_loop_task].cancel =
                            tasks[update_loop_task].pc \in Suspended]
            /\ update_loop_task' = 0
       ELSE UNCHANGED <<tasks, update_loop_task>>
    /\ UNCHANGED <<now, api_data, snapshot, created, cycles, call, config, probe>>

\* Time passes.
Tick ==
    /\ now < MaxTime
    /\ now' = now + 1
    /\ UNCHANGED <<api_data, snapshot, update_loop_task, tasks, created, cycles, call, config, probe>>

\* ---------------------------------------------------- one get_api_key call
NoResponse ==
    [ok |-> FALSE, access_token |-> Missing, expires_in |-> Missing, issued_at |-> Missing]

\* pc: "idle" before the first call, "post" awaiting the token endpoint,
\* "returned" / "raised" after the call.  before: the credential state the
\* call started from; start: the time it started; at: the time of its last
\* step; resp: the answer the renewal received; result: the key returned;
\* posts: the POSTs it made.
NoCall ==
    [pc |-> "idle", before |-> NoCredentials, start |-> 0, at |-> 0,
     resp |-> NoResponse, result |-> <<>>, posts |-> 0]

\* get_api_key is called: up to the POST, the return or the KeyError.
KeyCall ==
    /\ call.pc \in {"idle", "returned", "raised"}
    /\ call' = [pc |-> IF Renew(api_data, now) THEN "post"
                       ELSE IF ReturnKey(api_data) = <<>> THEN "raised"
                       ELSE "returned",
                before |-> api_data,
                start |-> now,
                at |-> now,
                resp |-> NoResponse,
                result |-> IF Renew(api_data, now) THEN <<>> ELSE ReturnKey(api_data),
                posts |-> IF Renew(api_data, now) THEN 1 ELSE 0]
    /\ UNCHANGED <<now, api_data, snapshot, update_loop_task, tasks, created, cycles, config, probe>>

\* The token endpoint answers the call's POST.
KeyResponse ==
    /\ call.pc = "post"
    /\ \E resp \in TokenResponses(now) :
         LET r == _renew_api_key(api_data, resp, now)
         IN /\ api_data' = r.data
            /\ call' = [call EXCEPT
                 !.pc = IF r.ok /\ ReturnKey(r.data) # <<>> THEN "returned" ELSE "raised",
                 !.at = now,
                 !.resp = resp,
                 !.result = IF r.ok THEN ReturnKey(r.data) ELSE <<>>]
    /\ UNCHANGED <<now, snapshot, update_loop_task, tasks, created, cycles, config, probe>>

\* ------------------------------------------------------------- the request
\* The coordinates an entity is configured with, as str() prints them.
Bern == [latitude |-> "46.9480", longitude |-> "7.4474"]
Lucerne == [latitude |-> "47.0274", longitude |-> "8.3020"]
Configs == {Bern, Lucerne}

\* geoid of __update: "{},{}".format(latitude, longitude) of _default_params.
\* The variable is computed and not used.
geoid(cfg) == cfg.latitude \o "," \o cfg.longitude

\* URL_FORECASTS.format(geolocationId=...), without API_URL.
URL_FORECASTS(geolocationId) == "/srf-meteo/forecast/" \o geolocationId

\* The url __update passes to __get: the geolocationId is a literal.
UpdateUrl(cfg) == URL_FORECASTS("47.0274,8.3020")

\* The GET of __get: the url and the header weak_update leaves in kwargs.
GetRequest(url, api_key) ==
    [url |-> url, Authorization |-> <<"Bearer", api_key>>]

\* ------------------------------------------------- calls observed on their own
\* fn: the function called ("none" before the first call); arg: its arguments;
\* result: what it returned, or how it ended.
NoProbe == [fn |-> "none", arg |-> <<>>, result |-> <<>>]

\* Bearings in quarter degrees, from 0 to past the full circle.
MaxBearing == 1530
Bearings == 0..MaxBearing

\* deg_to_cardinal(deg) is called.
CardinalCall ==
    /\ \E q4 \in Bearings :
         probe' = [fn |-> "deg_to_cardinal", arg |-> <<q4>>,
                   result |-> <<deg_to_cardinal(q4)>>]
    /\ UNCHANGED <<now, api_data, snapshot, update_loop_task, tasks, created,
                   cycles, call, config>>

\* Symbol codes: the table's range and beyond it, and a far one.
MaxSymbol == 32
SymbolCodes == ((-MaxSymbol)..MaxSymbol) \cup {9999}

\* get_condition_from_symbol(symbol_id) is called.
SymbolCall ==
    /\ \E symbol_id \in SymbolCodes :
         probe' = [fn |-> "get_condition_from_symbol", arg |-> <<symbol_id>>,
                   result |-> <<get_condition_from_symbol(symbol_id)>>]
    /\ UNCHANGED <<now, api_data, snapshot, update_loop_task, tasks, created,
                   cycles, call, config>>

\* The fields parse_forecast reads.
ParseFields ==
    {"local_date_time", "TX_C", "TN_C", "SYMBOL_CODE", "RRR_MM", "DD_DEG", "FF_KMH"}

\* Records for parse_forecast: well-formed ones, and each with one field
\* missing, not a number (not a date), or a number held in a string.
ParseRecords ==
    UNION {{Rec(k)}
           \cup {[Rec(k) EXCEPT ![f] = x] : f \in ParseFields, x \in {Missing, Text}}
           \cup {[Rec(k) EXCEPT ![f] = NumStr(7)] : f \in ParseFields \ {"local_date_time"}}
           : k \in 0..MaxHours}

\* parse_forecast(day) is called.
ParseCall ==
    /\ \E day \in ParseRecords :
         probe' = [fn |-> "parse_forecast", arg |-> <<day>>,
                   result |-> <<parse_forecast(day)>>]
    /\ UNCHANGED <<now, api_data, snapshot, update_loop_task, tasks, created,
                   cycles, call, config>>

\* __update from the GET on, with the endpoint answering `resp` at time t:
\* [ok, snap].
Update(snap, resp, t) ==
    LET g == Get(resp)
    IN IF ~g.ok THEN [ok |-> FALSE, snap |-> snap]
       ELSE UpdateBody(snap, g.data, t)

\* The entity's first __update is called, the cached key being valid: the GET
\* it makes, the answer it receives, and whether it returned (ok) or raised.
UpdateCall ==
    /\ probe.fn = "none"
    /\ ~Renew(api_data, now)
    /\ ReturnKey(api_data) # <<>>
    /\ \E resp \in ForecastResponses :
         LET u == Update(snapshot, resp, now)
         IN /\ snapshot' = u.snap
            /\ probe' = [fn |-> "__update",
                         arg |-> <<[resp |-> resp, now |-> now]>>,
                         result |-> <<[ok |-> u.ok,
                                       request |-> GetRequest(UpdateUrl(config),
                                                              ReturnKey(api_data)[1])]>>]
    /\ UNCHANGED <<now, api_data, update_loop_task, tasks, created, cycles, call,
                   config>>

\* ----------------------------------------------------------- specifications
EntityInit ==
    /\ config = Bern
    /\ probe = NoProbe
    /\ snapshot = EmptySnapshot
    /\ update_loop_task = 0
    /\ tasks = [t \in TaskIds |-> NoTask]
    /\ created = 0
    /\ cycles = 0

\* The entity as its constructor leaves it, its configuration holding no key.
Init ==
    /\ now = 0
    /\ api_data = NoCredentials
    /\ call = NoCall
    /\ EntityInit

TaskStep(t) ==
    \/ TaskStart(t)
    \/ SleepDone(t)
    \/ TokenResponse(t)
    \/ FetchResponse(t, BasicResponses)
    \/ Cancelled(t)

\* The entity under the host's lifecycle.
Next ==
    \/ HostAdd
    \/ async_will_remove_from_hass
    \/ Tick
    \/ \E t \in TaskIds : TaskStep(t)

Spec == Init /\ [][Next]_vars

\* The entity under any sequence of its two lifecycle hooks.
NextAny ==
    \/ async_added_to_hass
    \/ async_will_remove_from_hass
    \/ Tick
    \/ \E t \in TaskIds : TaskStep(t)

SpecAny == Init /\ [][NextAny]_vars

NextKey ==
    \/ KeyCall
    \/ KeyResponse
    \/ Tick

\* get_api_key called again and again on the credential state of a new entity.
SpecKey == Init /\ [][NextKey]_vars

\* get_api_key on any credential state a caller may pass.
InitKeyAny ==
    /\ now = 0
    /\ api_data \in [api_key : {<<>>} \cup {<<k>> : k \in Tokens},
                     expires_at : {<<>>} \cup {<<e>> : e \in 0..(MaxTime + MaxExpiresIn)}]
    /\ call = NoCall
    /\ EntityInit

SpecKeyAny == InitKeyAny /\ [][NextKey]_vars

\* The attached entity holding a key that outlasts the clock, its task not yet
\* run: the update cycle on every answer within the bounds.
InitForecast ==
    /\ now = 0
    /\ api_data = [api_key |-> <<1>>, expires_at |-> <<MaxTime + 1>>]
    /\ call = NoCall
    /\ config = Bern
    /\ probe = NoProbe
    /\ snapshot = EmptySnapshot
    /\ update_loop_task = 1
    /\ tasks = [t \in TaskIds |-> IF t = 1 THEN NewTask ELSE NoTask]
    /\ created = 1
    /\ cycles = 0

NextForecast ==
    \/ TaskStart(1)
    \/ SleepDone(1)
    \/ FetchResponse(1, ForecastResponses)
    \/ Tick

SpecForecast == InitForecast /\ [][NextForecast]_vars

\* The pure functions of the module, each called on every input within the
\* bounds.
NextFunctions ==
    \/ CardinalCall
    \/ SymbolCall
    \/ ParseCall

SpecFunctions == Init /\ [][NextFunctions]_vars

\* An entity configured for any of the locations, holding a key that outlasts
\* the clock: __update called on every answer within the bounds.
InitUpdate ==
    /\ now = 0
    /\ api_data = [api_key |-> <<1>>, expires_at |-> <<MaxTime + 1>>]
    /\ call = NoCall
    /\ config \in Configs
    /\ probe = NoProbe
    /\ snapshot = EmptySnapshot
    /\ update_loop_task = 0
    /\ tasks = [t \in TaskIds |-> NoTask]
    /\ created = 0
    /\ cycles = 0

NextUpdate ==
    \/ UpdateCall
    \/ Tick

SpecUpdate == InitUpdate /\ [][NextUpdate]_vars


\* ==================================================================== claims

\* ---------------------------------------------------------------------- C1
\* C1: a get_api_key call that starts with no cached key makes exactly one
\* POST and, when that renewal succeeds, returns the key the endpoint issued,
\* which is then the cached key; a call that starts with a cached key whose
\* expires_at is after the current time makes no POST, returns the cached key
\* and leaves the credential state as it was.
C1_RenewOnceOrUseCache ==
    /\ (call.pc # "idle" /\ call.before.api_key = <<>>) =>
          /\ call.posts = 1
          /\ call.pc = "returned" =>
                /\ call.result = <<call.resp.access_token.v>>
                /\ api_data.api_key = call.result
    /\ (/\ call.pc # "idle"
        /\ call.before.api_key # <<>>
        /\ call.before.expires_at # <<>>
        /\ call.before.expires_at[1] > call.start) =>
          /\ call.posts = 0
          /\ call.pc = "returned"
          /\ call.result = call.before.api_key
          /\ api_data = call.before

\* A call has returned the cached key of an earlier renewal without a POST.
C1_Witness ==
    /\ call.pc = "returned"
    /\ call.posts = 0
    /\ call.before.api_key # <<>>
    /\ call.before.expires_at[1] > call.start

\* ---------------------------------------------------------------------- C2
\* The answers of the token endpoint the claim calls failed renewals.
FailingTokenResponse(resp) ==
    \/ ~resp.ok
    \/ resp.access_token.t = "missing"
    \/ resp.expires_in.t \in {"missing", "text"}
    \/ resp.issued_at.t = "text"

\* C2: a get_api_key call whose renewal fails (transport error or malformed
\* body, access_token or expires_in missing, expires_in or issued_at not a
\* number) raises, and whenever the call raises the credential state is the
\* one the call started from.
C2_FailedRenewalKeepsCredentials ==
    /\ (call.posts = 1 /\ call.pc \in {"returned", "raised"}
          /\ FailingTokenResponse(call.resp)) => call.pc = "raised"
    /\ call.pc = "raised" => api_data = call.before

\* A renewal has failed on an answer without access_token while a key was cached.
C2_Witness ==
    /\ call.pc = "raised"
    /\ call.posts = 1
    /\ call.before.api_key # <<>>
    /\ call.resp.ok
    /\ call.resp.access_token.t = "missing"

\* ---------------------------------------------------------------------- C3
\* C3: in every state of an entity created without a cached key, if the
\* credential state holds a key it holds an expiry too.
C3_KeyImpliesExpiry ==
    api_data.api_key # <<>> => api_data.expires_at # <<>>

\* A renewal has failed while the entity held a key.
C3_Witness ==
    /\ api_data.api_key # <<>>
    /\ \E t \in TaskIds : /\ tasks[t].pc = "sleep"
                          /\ tasks[t].outcome = "error"
                          /\ tasks[t].status = ""


\* ---------------------------------------------------------------------- C4
\* C4: after a successful renewal with expires_in > 0 the stored expires_at
\* is later than the instant of the renewal, and when the answer carried no
\* issued_at it is that instant plus expires_in.
C4_ExpiryAfterRenewal ==
    (/\ call.pc = "returned"
     /\ call.posts = 1
     /\ call.resp.expires_in.v > 0) =>
        /\ api_data.expires_at[1] > call.at
        /\ call.resp.issued_at.t = "missing" =>
              api_data.expires_at[1] = call.at + call.resp.expires_in.v

\* ---------------------------------------------------------------------- C5
\* When the claim has get_api_key renew: the key is absent, or the current
\* time has reached expires_at (an absent expiry counting as reached).
ClaimedRenew(data, t) ==
    \/ data.api_key = <<>>
    \/ data.expires_at = <<>>
    \/ t >= data.expires_at[1]

\* C5: get_api_key makes a renewal if and only if the key is absent or the
\* current time is at or past expires_at; a credential state with an expiry
\* in the future and no key is renewed, not answered with an error.
C5_RenewIffAbsentOrExpired ==
    call.pc # "idle" =>
        /\ (call.posts = 1) <=> ClaimedRenew(call.before, call.start)
        /\ (call.before.api_key = <<>> /\ call.pc = "raised") => call.posts = 1

\* ---------------------------------------------------------------------- C6
\* C6: the step in which a task receives a non-success status for its GET
\* leaves the whole snapshot as it was, and the task goes on to its sleep
\* through `except Exception` (the error stays inside the loop).
C6_FetchErrorKeepsSnapshot ==
    [][\A t \in TaskIds :
          (/\ tasks[t].pc = "fetch_wait"
           /\ tasks'[t].pc # "fetch_wait"
           /\ tasks'[t].status = "http500") =>
              /\ snapshot' = snapshot
              /\ tasks'[t].pc = "sleep"
              /\ tasks'[t].outcome = "error"]_vars

\* A cycle has ended on a non-success status after an earlier cycle had
\* published a snapshot.
C6_Witness ==
    /\ snapshot.forecast # <<>>
    /\ \E t \in TaskIds : tasks[t].pc = "sleep" /\ tasks[t].status = "http500"

\* ---------------------------------------------------------------------- C7
\* C7: the step in which a cycle ends with an exception leaves every field of
\* the snapshot as it was.
C7_FailedCycleKeepsSnapshot ==
    [][\A t \in TaskIds :
          (/\ tasks[t].pc \in {"new", "sleep", "token_wait", "fetch_wait"}
           /\ tasks'[t].pc = "sleep"
           /\ tasks'[t].outcome = "error"
           /\ tasks'[t] # tasks[t]) => snapshot' = snapshot]_vars

\* ---------------------------------------------------------------------- C8
\* C8: no update-loop task ever ends by an exception other than its
\* cancellation.
C8_LoopNeverEndsItself ==
    \A t \in TaskIds : tasks[t].pc # "crashed"

\* ---------------------------------------------------------------------- C9
\* C9: a task whose cancellation was requested does nothing but end, stopped;
\* a stopped task stays stopped; and while the entity is detached no cycle
\* begins and neither the snapshot nor the credential state changes.
C9_CancellationStopsTheLoop ==
    [][/\ \A t \in TaskIds :
            /\ (tasks[t].cancel /\ tasks'[t] # tasks[t]) =>
                  /\ tasks'[t].pc = "stopped"
                  /\ snapshot' = snapshot
                  /\ api_data' = api_data
            /\ tasks[t].pc = "stopped" => tasks'[t].pc = "stopped"
       /\ update_loop_task = 0 =>
            /\ snapshot' = snapshot
            /\ api_data' = api_data
            /\ cycles' = cycles]_vars

\* A task cancelled during a cycle has stopped and the entity is detached.
C9_Witness ==
    /\ update_loop_task = 0
    /\ \E t \in TaskIds : /\ tasks[t].pc = "stopped"
                          /\ tasks[t].outcome = "cancelled_in_cycle"

\* --------------------------------------------------------------------- C10
\* A task that is neither ended nor about to end by a requested cancellation.
Running(t) == tasks[t].pc \in Suspended /\ ~tasks[t].cancel

\* C10: at most one update-loop task of the entity is running, and none is
\* while the entity is detached.
C10_SingleLoopTask ==
    /\ Cardinality({t \in TaskIds : Running(t)}) <= 1
    /\ update_loop_task = 0 => \A t \in TaskIds : ~Running(t)

\* --------------------------------------------------------------------- C11
\* C11: after an __update call that returned, the entity's daily forecast is
\* exactly the entries of the answer's "day" records that parse, in the
\* answer's order, and nothing else.
C11_DailyForecastIsDailyRecords ==
    (probe.fn = "__update" /\ probe.result[1].ok) =>
        snapshot.forecast = ParseAll(probe.arg[1].resp.days[1])

\* --------------------------------------------------------------------- C12
\* C12: after an __update call that returned, the entity's hourly forecast is
\* the entries of the answer's "60minutes" records that parse, in the
\* answer's order.
C12_HourlyForecastIsHourlyRecords ==
    (probe.fn = "__update" /\ probe.result[1].ok) =>
        snapshot.hourly_forecast = ParseAll(probe.arg[1].resp.hours[1])

\* --------------------------------------------------------------------- C13
\* C13: the GET of an __update call is made for the entity's configured
\* location, its geolocationId being "{latitude},{longitude}" of the
\* configuration, and carries Authorization: Bearer <key>, the key being the
\* one get_api_key returned.
C13_RequestForConfiguredLocation ==
    probe.fn = "__update" =>
        /\ probe.result[1].request.url = URL_FORECASTS(geoid(config))
        /\ probe.result[1].request.Authorization = <<"Bearer", ReturnKey(api_data)[1]>>

\* --------------------------------------------------------------------- C14
\* Rounding to the nearest of the 16 sectors, a tie going to the higher index,
\* modulo 16; the bearing is in quarter degrees.
ClaimedCardinal(q4) ==
    CARDINALS[((((q4 % (4 * DEG_FULL_CIRCLE)) + 45) \div 90) % Len(CARDINALS)) + 1]

\* C14: deg_to_cardinal returns the label of the nearest sector, and on a
\* bearing halfway between two sector centres (an odd multiple of 11.25
\* degrees) the label of the higher-index one; 0 gives "N", 180 "S" and
\* 22.5 "NNE".
C14_TiesToHigherSector ==
    probe.fn = "deg_to_cardinal" =>
        /\ probe.result[1] = ClaimedCardinal(probe.arg[1])
        /\ probe.arg[1] = 0 => probe.result[1] = "N"
        /\ probe.arg[1] = 4 * DEG_HALF_CIRCLE => probe.result[1] = "S"
        /\ probe.arg[1] = 90 => probe.result[1] = "NNE"

\* --------------------------------------------------------------------- C15
\* A well-formed record carrying the symbol code.
RecWithSymbol(symbol_id) == [Rec(1) EXCEPT !.SYMBOL_CODE = Num(symbol_id)]

\* C15: get_condition_from_symbol returns the table's entry for a code of the
\* table (1 gives "sunny", -1 "clear-night") and "unavailable" for any other
\* code (0, 9999); a record carrying the code, as the selected record or as a
\* forecast record, is converted without an error.
C15_SymbolLookupTotal ==
    probe.fn = "get_condition_from_symbol" =>
        LET symbol_id == probe.arg[1]
            condition == probe.result[1]
        IN /\ symbol_id \in DOMAIN SYMBOL_STATE_MAP => condition = SYMBOL_STATE_MAP[symbol_id]
           /\ symbol_id \notin DOMAIN SYMBOL_STATE_MAP => condition = "unavailable"
           /\ symbol_id = 1 => condition = "sunny"
           /\ symbol_id = -1 => condition = "clear-night"
           /\ symbol_id \in {0, 9999, 31, -31} => condition = "unavailable"
           /\ UpdateCurrent(EmptySnapshot, RecWithSymbol(symbol_id)).ok
           /\ UpdateCurrent(EmptySnapshot, RecWithSymbol(symbol_id)).snap.state = <<condition>>
           /\ parse_forecast(RecWithSymbol(symbol_id)).ok
           /\ parse_forecast(RecWithSymbol(symbol_id)).entry[1].condition = condition

\* The function has been called on a code that is not in the table.
C15_Witness ==
    /\ probe.fn = "get_condition_from_symbol"
    /\ probe.arg = <<9999>>
    /\ probe.result = <<"unavailable">>

\* --------------------------------------------------------------------- C16
\* The numeric fields of a record.
NumericFields ==
    (ParseFields \ {"local_date_time"}) \cup {"TTT_C", "FX_KMH", "PROBPCP_PERCENT"}

\* A record whose timestamp is an instant and whose fields are all numbers.
WellFormed(f) ==
    /\ f.local_date_time.t = "iso"
    /\ \A k \in NumericFields : f[k].t \in {"num", "numstr"}

\* A record the claim calls malformed: a field missing or not a number, or a
\* local_date_time that is no ISO-8601 string.
Malformed(f) ==
    \/ f.local_date_time.t \in {"missing", "text"}
    \/ \E k \in NumericFields : f[k].t \in {"missing", "text"}

\* The selection the specification describes, on records whose timestamps
\* are instants: the first one after t, else the last one.
ClaimedNow(hours, t) ==
    LET after == {i \in 1..Len(hours) : hours[i].local_date_time.v > t}
    IN IF after = {} THEN hours[Len(hours)]
       ELSE hours[CHOOSE i \in after : \A j \in after : i <= j]

\* An answer with both lists in which exactly one record is malformed and the
\* others are well-formed, a well-formed hourly record being the "now" record.
OneBadRecord(resp, t) ==
    /\ resp.status = "ok"
    /\ resp.hours # <<>>
    /\ resp.days # <<>>
    /\ LET hours == resp.hours[1]
           days == resp.days[1]
       IN /\ \A i \in 1..Len(hours) : WellFormed(hours[i]) \/ Malformed(hours[i])
          /\ \A i \in 1..Len(days) : WellFormed(days[i]) \/ Malformed(days[i])
          /\ Cardinality({i \in 1..Len(hours) : Malformed(hours[i])})
               + Cardinality({i \in 1..Len(days) : Malformed(days[i])}) = 1
          /\ SelectSeq(hours, WellFormed) # <<>>
          /\ WellFormed(ClaimedNow(SelectSeq(hours, WellFormed), t))

\* C16: an __update call on an answer with one malformed record, a
\* well-formed record being available as the "now" record, returns; the
\* current-state fields are those of the "now" record, and of all the records
\* only the malformed one has no entry in the forecast lists.
C16_OneBadRecordDoesNotAbort ==
    (probe.fn = "__update" /\ OneBadRecord(probe.arg[1].resp, probe.arg[1].now)) =>
        LET resp == probe.arg[1].resp
            f == ClaimedNow(SelectSeq(resp.hours[1], WellFormed), probe.arg[1].now)
        IN /\ probe.result[1].ok
           /\ snapshot.state = <<get_condition_from_symbol(IntOf(f.SYMBOL_CODE))>>
           /\ snapshot.temperature = <<FloatOf(f.TTT_C)>>
           /\ Len(snapshot.forecast) + Len(snapshot.hourly_forecast)
                = Len(resp.hours[1]) + Len(resp.days[1]) - 1

\* --------------------------------------------------------------------- C17
\* The fields __update reads from the selected record.
CurrentFields ==
    {"SYMBOL_CODE", "TTT_C", "FF_KMH", "FX_KMH", "DD_DEG", "RRR_MM", "PROBPCP_PERCENT"}

\* An answer with a non-empty hourly list whose timestamps are all instants.
TimedHours(resp) ==
    /\ resp.status = "ok"
    /\ resp.hours # <<>>
    /\ resp.hours[1] # <<>>
    /\ \A i \in 1..Len(resp.hours[1]) : resp.hours[1][i].local_date_time.t = "iso"

\* C17: on a non-empty hourly list the record __update uses for the
\* current-state fields is the first one whose timestamp is strictly after the
\* current instant, else the last one: its condition is the one stored, a
\* call that returned stored its temperature and symbol too, a call on an
\* answer with a "day" list whose selected record is all numbers returned,
\* and a selected record without a numeric symbol code ended the call with
\* nothing stored.
C17_NowRecordIsFirstStrictlyAfter ==
    (probe.fn = "__update" /\ TimedHours(probe.arg[1].resp)) =>
        LET resp == probe.arg[1].resp
            f == ClaimedNow(resp.hours[1], probe.arg[1].now)
        IN /\ IntOk(f.SYMBOL_CODE) =>
                 snapshot.state = <<get_condition_from_symbol(IntOf(f.SYMBOL_CODE))>>
           /\ ~IntOk(f.SYMBOL_CODE) =>
                 (~probe.result[1].ok /\ snapshot = EmptySnapshot)
           /\ probe.result[1].ok =>
                 /\ snapshot.temperature = <<FloatOf(f.TTT_C)>>
                 /\ snapshot.state_attrs[1].symbol_id = IntOf(f.SYMBOL_CODE)
                 /\ snapshot.state_attrs[1].precipitation = FloatOf(f.RRR_MM)
           /\ ((\A k \in CurrentFields : f[k].t \in {"num", "numstr"})
                 /\ resp.days # <<>>) => probe.result[1].ok

\* A call made at instant 1 on the records of instants 1 and 2 has used the
\* second: the record whose timestamp equals the current instant is passed over.
C17_Witness ==
    /\ probe.fn = "__update"
    /\ probe.arg[1].now = 1
    /\ probe.arg[1].resp.hours = <<(<<Rec(1), Rec(2)>>)>>
    /\ probe.result[1].ok
    /\ snapshot.temperature = <<FloatOf(Rec(2).TTT_C)>>

\* --------------------------------------------------------------------- C18
\* The places where a task is inside a cycle.
InCycle == {"token_wait", "fetch_wait"}

\* C18: a task begins a cycle only on its first run or out of a sleep of at
\* least 3300 and less than 3900 seconds; a cycle that ends, by success or by
\* failure, is followed by such a sleep or by the end of the task; and a sleep
\* is followed by a cycle or by the end of the task, never by another sleep.
C18_OneSleepBetweenCycles ==
    [][\A t \in TaskIds :
          /\ (tasks[t].pc \notin InCycle /\ tasks'[t].pc \in InCycle) =>
                \/ tasks[t].pc = "new"
                \/ /\ tasks[t].pc = "sleep"
                   /\ 3300 <= tasks[t].delay
                   /\ tasks[t].delay < 3900
          /\ (tasks[t].pc \in InCycle /\ tasks'[t].pc \notin InCycle) =>
                \/ tasks'[t].pc \in {"stopped", "crashed"}
                \/ /\ tasks'[t].pc = "sleep"
                   /\ 3300 <= tasks'[t].delay
                   /\ tasks'[t].delay < 3900
          /\ tasks[t].pc = "sleep" =>
                \/ tasks'[t].pc \in InCycle \cup {"stopped"}
                \/ /\ tasks'[t].pc = "sleep"
                   /\ tasks'[t].delay = tasks[t].delay]_vars

\* The only task of the entity is in its second cycle, after the sleep that
\* followed its first.
C18_Witness ==
    /\ created = 1
    /\ cycles = 2
    /\ tasks[1].pc = "fetch_wait"

\* --------------------------------------------------------------------- C19
\* A record parse_forecast is to accept: a date and numbers in the fields it
\* reads, the bearing within the circle.
ParseWellFormed(day) ==
    /\ day.local_date_time.t \in {"iso", "isonaive"}
    /\ \A k \in ParseFields \ {"local_date_time"} : day[k].t \in {"num", "numstr"}
    /\ day.DD_DEG.v \in 0..(DEG_FULL_CIRCLE - 1)

\* A record with a field parse_forecast reads missing or not a number.
ParseMalformed(day) ==
    \E k \in ParseFields : day[k].t \in {"missing", "text"}

\* C19: parse_forecast on a well-formed record returns an entry whose wind
\* bearing is the record's DD_DEG, an integer in 0..359, whose temperature is
\* TX_C, templow TN_C, precipitation RRR_MM and wind speed FF_KMH; on a record
\* with a field missing or not a number it fails and returns no entry.
C19_ParseForecastEntry ==
    probe.fn = "parse_forecast" =>
        LET day == probe.arg[1]
            r == probe.result[1]
        IN /\ ParseWellFormed(day) =>
                 /\ r.ok
                 /\ r.entry[1].wind_bearing = IntOf(day.DD_DEG)
                 /\ r.entry[1].wind_bearing \in 0..359
                 /\ r.entry[1].temperature = FloatOf(day.TX_C)
                 /\ r.entry[1].templow = FloatOf(day.TN_C)
                 /\ r.entry[1].precipitation = FloatOf(day.RRR_MM)
                 /\ r.entry[1].wind_speed = FloatOf(day.FF_KMH)
           /\ ParseMalformed(day) => (~r.ok /\ r.entry = <<>>)

\* --------------------------------------------------------------------- C20
\* The outcomes in which async_update_ha_state was called.
PublishOutcomes == {"published", "publish_raised"}

\* C20: the step that ends a cycle calls async_update_ha_state, once, exactly
\* when the cycle had no error: a cycle followed by the call received its GET's
\* answer with status 200 and stored the snapshot of an __update that
\* returned; a cycle not followed by it ended in `except Exception`, on the
\* token request or on an answer on which __update raised; and the task
\* ends itself only in that call.
C20_PublishOnlyAfterSuccess ==
    [][\A t \in TaskIds :
          (tasks[t].pc \in InCycle /\ tasks'[t].pc \in {"sleep", "crashed"}) =>
             /\ tasks'[t].outcome \in PublishOutcomes =>
                   /\ tasks[t].pc = "fetch_wait"
                   /\ tasks'[t].status = "ok"
                   /\ \E resp \in BasicResponses :
                        /\ resp.status = "ok"
                        /\ Update(snapshot, resp, now).ok
                        /\ snapshot' = Update(snapshot, resp, now).snap
             /\ tasks'[t].outcome \notin PublishOutcomes =>
                   /\ tasks'[t].outcome = "error"
                   /\ \/ tasks[t].pc = "token_wait"
                      \/ \E resp \in BasicResponses :
                           /\ resp.status = tasks'[t].status
                           /\ ~Update(snapshot, resp, now).ok
                           /\ snapshot' = Update(snapshot, resp, now).snap
             /\ tasks'[t].pc = "crashed" => tasks'[t].outcome = "publish_raised"]_vars

\* A second cycle has published after a first one that failed on the token
\* request or on the forecast.
C20_Witness ==
    /\ created = 1
    /\ cycles = 2
    /\ tasks[1].pc = "sleep"
    /\ tasks[1].outcome = "published"
    /\ snapshot.temperature # <<>>

====
